---------------------------- MODULE Spec2Model ----------------------------
(***************************************************************************)
(* Limit order book of src/orderbook/orderbook.cpp: MemoryPool, the two    *)
(* price-ordered side maps of Level, the order_lookup index and the three  *)
(* operation counters, with add_order, cancel_order and amend_order.       *)
(*                                                                         *)
(* Representation.                                                         *)
(*  - An OrderNode* is the pair <<block, index>> of the pool slot it       *)
(*    points to; order_pool.data maps every constructed slot to the        *)
(*    OrderNode stored there.                                              *)
(*  - A price is an integer number of PriceUnit = 1e-9, so the amend       *)
(*    tolerance 1e-9 is PriceTol = 1 unit: prices 1 and 2 are distinct map *)
(*    keys that compare "unchanged" in amend_order, 1 and 3 do not.        *)
(*  - uint64_t quantities are integers modulo QMod (the stand-in for 2^64),*)
(*    and sums of quantities are taken in that arithmetic.                 *)
(*  - call and ret record the most recent call, the arguments it read and  *)
(*    what it returned; they are what the properties of one call speak of. *)
(*  - Order::timestamp_ns is written but never read by the book, and is    *)
(*    left out of the record.                                              *)
(*  - OrderNode::level_iterator designates the std::list cell created by   *)
(*    the push_back of that node; a queue is the sequence of node pointers *)
(*    and the designated cell is the last cell holding the node's pointer. *)
(***************************************************************************)
EXTENDS Integers, Sequences, FiniteSets, TLC

VARIABLES order_pool, bid_levels, ask_levels, order_lookup,
          total_orders, total_cancels, total_amends, call, ret

book_vars == <<order_pool, bid_levels, ask_levels, order_lookup,
               total_orders, total_cancels, total_amends>>
vars == <<order_pool, bid_levels, ask_levels, order_lookup,
          total_orders, total_cancels, total_amends, call, ret>>

(* ------------------------------ bounds --------------------------------- *)
\* add_order calls made, amend_order calls that returned true
MaxOrders == 3
MaxAmends == 1
\* stand-ins for 2^64 and for the pool's block size of 1024
QMod == 3
BlockSize == 2

\* 1e-9, in price units
PriceTol == 1
\* stand-in for std::numeric_limits<double>::max(), the largest price
DblMax == 9

\* inputs: identifiers; prices of added orders; prices amended to (2 is
\* within the tolerance of 1 and of 3, and 3 is beyond the tolerance of 1);
\* quantities of added orders; quantities amended to (a decrease to zero and
\* an increase; a price-changing amend passes them to add_order)
OrderIds == {1, 2}
Prices == {1, 3}
AmendPrices == {2, 3}
Quantities == {1}
AmendQuantities == {0, 2}
\* snapshot depths: none, fewer than the levels a side can have, more
Depths == {0, 1, 3}
\* prices at the ends of the range of a double that add_order takes, and one
\* between them
LimitPrices == {0, 1, DblMax}
\* quantities at the low end of uint64_t
LimitQuantities == {0, 1}

(* ------------------------------ helpers -------------------------------- *)
EmptyMap == [k \in {} |-> 0]

MapPut(m, k, v) == [x \in DOMAIN m \cup {k} |-> IF x = k THEN v ELSE m[x]]

MapErase(m, k) == [x \in DOMAIN m \ {k} |-> m[x]]

Abs(x) == IF x < 0 THEN -x ELSE x

\* uint64_t arithmetic
UAdd(a, b) == (a + b) % QMod
USub(a, b) == (a - b + QMod) % QMod

\* mutant: erases the front cell, whichever cell the iterator designates
ListErase_front(orders, node) == Tail(orders)

\* std::list::erase(node->level_iterator)
ListErase(orders, node) ==
    LET hits == {i \in 1..Len(orders) : orders[i] = node}
        at == CHOOSE i \in hits : \A j \in hits : j <= i
    IN  [i \in 1..(Len(orders) - 1) |-> IF i < at THEN orders[i] ELSE orders[i + 1]]

(* ---------------------------- MemoryPool ------------------------------- *)
allocate_block(pool) ==
    [pool EXCEPT !.blocks = @ + 1, !.head_block = pool.blocks + 1, !.current_index = 0]

PoolInit ==
    allocate_block([head_block |-> 0, blocks |-> 0, free_list |-> <<>>,
                    current_index |-> BlockSize, data |-> EmptyMap])

\* mutant: the slot taken from the free list is left on it
allocate_no_pop(pool) ==
    IF pool.free_list # <<>>
    THEN [pool |-> pool, ptr |-> pool.free_list[Len(pool.free_list)]]
    ELSE LET p == IF pool.current_index >= BlockSize THEN allocate_block(pool) ELSE pool
         IN  [pool |-> [p EXCEPT !.current_index = @ + 1],
              ptr  |-> <<p.head_block, p.current_index>>]

allocate(pool) ==
    IF pool.free_list # <<>>
    THEN [pool |-> [pool EXCEPT !.free_list = SubSeq(@, 1, Len(@) - 1)],
          ptr  |-> pool.free_list[Len(pool.free_list)]]
    ELSE LET p == IF pool.current_index >= BlockSize THEN allocate_block(pool) ELSE pool
         IN  [pool |-> [p EXCEPT !.current_index = @ + 1],
              ptr  |-> <<p.head_block, p.current_index>>]

deallocate(pool, ptr) ==
    [pool EXCEPT !.data = MapErase(@, ptr), !.free_list = Append(@, ptr)]

(* ------------------------- OrderNode and Level ------------------------- *)
OrderNode(o) == [order |-> o]

Level(p) == [price |-> p, total_quantity |-> 0, orders |-> <<>>]

\* the book object; b[side] is one of the two side maps
this == [order_pool |-> order_pool, bid_levels |-> bid_levels,
         ask_levels |-> ask_levels, order_lookup |-> order_lookup,
         total_orders |-> total_orders, total_cancels |-> total_cancels,
         total_amends |-> total_amends]

\* mutant: push_front instead of push_back
add_to_side_push_front(b, side, node) ==
    LET o == b.order_pool.data[node].order
        m == IF o.price \in DOMAIN b[side] THEN b[side]
             ELSE MapPut(b[side], o.price, Level(o.price))
        level == m[o.price]
    IN  [b EXCEPT ![side] =
            MapPut(m, o.price,
                   [price |-> o.price,
                    orders |-> <<node>> \o level.orders,
                    total_quantity |-> UAdd(level.total_quantity, o.quantity)])]

\* mutant: the record's quantity is not added to the level's aggregate
add_to_side_no_total(b, side, node) ==
    LET o == b.order_pool.data[node].order
        m == IF o.price \in DOMAIN b[side] THEN b[side]
             ELSE MapPut(b[side], o.price, Level(o.price))
        level == m[o.price]
    IN  [b EXCEPT ![side] =
            MapPut(m, o.price,
                   [price |-> o.price,
                    orders |-> Append(level.orders, node),
                    total_quantity |-> level.total_quantity])]

add_to_side(b, side, node) ==
    LET o == b.order_pool.data[node].order
        m == IF o.price \in DOMAIN b[side] THEN b[side]
             ELSE MapPut(b[side], o.price, Level(o.price))
        level == m[o.price]
    IN  [b EXCEPT ![side] =
            MapPut(m, o.price,
                   [price |-> o.price,
                    orders |-> Append(level.orders, node),
                    total_quantity |-> UAdd(level.total_quantity, o.quantity)])]

\* mutant: an emptied level is left in the side map
remove_from_side_keep_level(b, side, node) ==
    LET o == b.order_pool.data[node].order
    IN  IF o.price \in DOMAIN b[side]
        THEN LET level == b[side][o.price]
             IN  [b EXCEPT ![side] =
                    MapPut(@, o.price,
                           [level EXCEPT !.orders = ListErase(level.orders, node),
                                         !.total_quantity = USub(@, o.quantity)])]
        ELSE b

\* mutant: the record's quantity is not subtracted from the aggregate
remove_from_side_stale_total(b, side, node) ==
    LET o == b.order_pool.data[node].order
    IN  IF o.price \in DOMAIN b[side]
        THEN LET level == b[side][o.price]
                 orders == ListErase(level.orders, node)
             IN  IF orders = <<>>
                 THEN [b EXCEPT ![side] = MapErase(@, o.price)]
                 ELSE [b EXCEPT ![side] =
                          MapPut(@, o.price, [level EXCEPT !.orders = orders])]
        ELSE b

remove_from_side(b, side, node) ==
    LET o == b.order_pool.data[node].order
    IN  IF o.price \in DOMAIN b[side]
        THEN LET level == b[side][o.price]
                 orders == ListErase(level.orders, node)
                 total == USub(level.total_quantity, o.quantity)
             IN  IF orders = <<>>
                 THEN [b EXCEPT ![side] = MapErase(@, o.price)]
                 ELSE [b EXCEPT ![side] =
                          MapPut(@, o.price, [level EXCEPT !.orders = orders,
                                                           !.total_quantity = total])]
        ELSE b

\* mutant: the level's aggregate is left as it was
update_quantity_in_place_stale_total(b, side, node, new_quantity) ==
    LET o == b.order_pool.data[node].order
    IN  IF o.price \in DOMAIN b[side]
        THEN [b EXCEPT !.order_pool.data[node].order.quantity = new_quantity]
        ELSE b

\* mutant: the amended record is moved to the back of its queue
update_quantity_in_place_requeue(b, side, node, new_quantity) ==
    LET o == b.order_pool.data[node].order
    IN  IF o.price \in DOMAIN b[side]
        THEN [b EXCEPT
                ![side][o.price].total_quantity = UAdd(USub(@, o.quantity), new_quantity),
                ![side][o.price].orders = Append(ListErase(@, node), node),
                !.order_pool.data[node].order.quantity = new_quantity]
        ELSE b

update_quantity_in_place(b, side, node, new_quantity) ==
    LET o == b.order_pool.data[node].order
    IN  IF o.price \in DOMAIN b[side]
        THEN [b EXCEPT
                ![side][o.price].total_quantity = UAdd(USub(@, o.quantity), new_quantity),
                !.order_pool.data[node].order.quantity = new_quantity]
        ELSE b

(* ------------------------------ OrderBook ------------------------------ *)
\* mutant: an incoming order first takes out the opposite levels it crosses
add_order_matching(b, order) ==
    LET opposite == IF order.is_buy THEN "ask_levels" ELSE "bid_levels"
        crossed == {p \in DOMAIN b[opposite] :
                      IF order.is_buy THEN p <= order.price ELSE p >= order.price}
        b0 == [b EXCEPT ![opposite] = [p \in DOMAIN @ \ crossed |-> @[p]]]
        a == allocate(b0.order_pool)
        node == a.ptr
        b1 == [b0 EXCEPT !.order_pool = [a.pool EXCEPT !.data = MapPut(@, node, OrderNode(order))],
                         !.order_lookup = MapPut(@, order.order_id, node)]
        b2 == IF order.is_buy THEN add_to_side(b1, "bid_levels", node)
                              ELSE add_to_side(b1, "ask_levels", node)
    IN  [b2 EXCEPT !.total_orders = @ + 1]

add_order(b, order) ==
    LET a == allocate(b.order_pool)
        node == a.ptr
        b1 == [b EXCEPT !.order_pool = [a.pool EXCEPT !.data = MapPut(@, node, OrderNode(order))],
                        !.order_lookup = MapPut(@, order.order_id, node)]
        b2 == IF order.is_buy THEN add_to_side(b1, "bid_levels", node)
                              ELSE add_to_side(b1, "ask_levels", node)
    IN  [b2 EXCEPT !.total_orders = @ + 1]

\* mutant: a cancel is not counted
cancel_order_uncounted(b, order_id) ==
    IF order_id \notin DOMAIN b.order_lookup
    THEN [book |-> b, ret |-> FALSE]
    ELSE LET node == b.order_lookup[order_id]
             b1 == IF b.order_pool.data[node].order.is_buy
                   THEN remove_from_side(b, "bid_levels", node)
                   ELSE remove_from_side(b, "ask_levels", node)
             b2 == [b1 EXCEPT !.order_lookup = MapErase(@, order_id),
                              !.order_pool = deallocate(@, node)]
         IN  [book |-> b2, ret |-> TRUE]

\* mutant: the identifier is left in order_lookup
cancel_order_keep_index(b, order_id) ==
    IF order_id \notin DOMAIN b.order_lookup
    THEN [book |-> b, ret |-> FALSE]
    ELSE LET node == b.order_lookup[order_id]
             b1 == IF b.order_pool.data[node].order.is_buy
                   THEN remove_from_side(b, "bid_levels", node)
                   ELSE remove_from_side(b, "ask_levels", node)
             b2 == [b1 EXCEPT !.order_pool = deallocate(@, node)]
         IN  [book |-> [b2 EXCEPT !.total_cancels = @ + 1], ret |-> TRUE]

\* mutant: an unknown identifier is counted as a cancel
cancel_order_counts_unknown(b, order_id) ==
    IF order_id \notin DOMAIN b.order_lookup
    THEN [book |-> [b EXCEPT !.total_cancels = @ + 1], ret |-> FALSE]
    ELSE LET node == b.order_lookup[order_id]
             b1 == IF b.order_pool.data[node].order.is_buy
                   THEN remove_from_side(b, "bid_levels", node)
                   ELSE remove_from_side(b, "ask_levels", node)
             b2 == [b1 EXCEPT !.order_lookup = MapErase(@, order_id),
                              !.order_pool = deallocate(@, node)]
         IN  [book |-> [b2 EXCEPT !.total_cancels = @ + 1], ret |-> TRUE]

cancel_order(b, order_id) ==
    IF order_id \notin DOMAIN b.order_lookup
    THEN [book |-> b, ret |-> FALSE]
    ELSE LET node == b.order_lookup[order_id]
             b1 == IF b.order_pool.data[node].order.is_buy
                   THEN remove_from_side(b, "bid_levels", node)
                   ELSE remove_from_side(b, "ask_levels", node)
             b2 == [b1 EXCEPT !.order_lookup = MapErase(@, order_id),
                              !.order_pool = deallocate(@, node)]
         IN  [book |-> [b2 EXCEPT !.total_cancels = @ + 1], ret |-> TRUE]

\* mutant: a price change into a level that already holds orders puts the
\* record at the front of that queue
amend_order_jumps_queue(b, order_id, new_price, new_quantity) ==
    IF order_id \notin DOMAIN b.order_lookup
    THEN [book |-> b, ret |-> FALSE]
    ELSE LET node == b.order_lookup[order_id]
             o == b.order_pool.data[node].order
             side == IF o.is_buy THEN "bid_levels" ELSE "ask_levels"
             b1 == IF Abs(o.price - new_price) > PriceTol
                   THEN LET new_order == [o EXCEPT !.price = new_price,
                                                   !.quantity = new_quantity]
                            c == add_order(cancel_order(b, order_id).book, new_order)
                            q == c[side][new_price].orders
                        IN  IF Len(q) > 1
                            THEN [c EXCEPT ![side][new_price].orders =
                                     <<q[Len(q)]>> \o SubSeq(q, 1, Len(q) - 1)]
                            ELSE c
                   ELSE IF o.is_buy
                        THEN update_quantity_in_place(b, "bid_levels", node, new_quantity)
                        ELSE update_quantity_in_place(b, "ask_levels", node, new_quantity)
         IN  [book |-> [b1 EXCEPT !.total_amends = @ + 1], ret |-> TRUE]

\* mutant: the price-changing path cancels and does not add
amend_order_cancel_only(b, order_id, new_price, new_quantity) ==
    IF order_id \notin DOMAIN b.order_lookup
    THEN [book |-> b, ret |-> FALSE]
    ELSE LET node == b.order_lookup[order_id]
             o == b.order_pool.data[node].order
             b1 == IF Abs(o.price - new_price) > PriceTol
                   THEN cancel_order(b, order_id).book
                   ELSE IF o.is_buy
                        THEN update_quantity_in_place(b, "bid_levels", node, new_quantity)
                        ELSE update_quantity_in_place(b, "ask_levels", node, new_quantity)
         IN  [book |-> [b1 EXCEPT !.total_amends = @ + 1], ret |-> TRUE]

\* mutant: total_amends is incremented on the in-place path only
amend_order_uncounted_reprice(b, order_id, new_price, new_quantity) ==
    IF order_id \notin DOMAIN b.order_lookup
    THEN [book |-> b, ret |-> FALSE]
    ELSE LET node == b.order_lookup[order_id]
             o == b.order_pool.data[node].order
             b1 == IF Abs(o.price - new_price) > PriceTol
                   THEN LET new_order == [o EXCEPT !.price = new_price,
                                                   !.quantity = new_quantity]
                        IN  add_order(cancel_order(b, order_id).book, new_order)
                   ELSE LET u == IF o.is_buy
                                 THEN update_quantity_in_place(b, "bid_levels", node, new_quantity)
                                 ELSE update_quantity_in_place(b, "ask_levels", node, new_quantity)
                        IN  [u EXCEPT !.total_amends = @ + 1]
         IN  [book |-> b1, ret |-> TRUE]

amend_order(b, order_id, new_price, new_quantity) ==
    IF order_id \notin DOMAIN b.order_lookup
    THEN [book |-> b, ret |-> FALSE]
    ELSE LET node == b.order_lookup[order_id]
             o == b.order_pool.data[node].order
             b1 == IF Abs(o.price - new_price) > PriceTol
                   THEN LET new_order == [o EXCEPT !.price = new_price,
                                                   !.quantity = new_quantity]
                        IN  add_order(cancel_order(b, order_id).book, new_order)
                   ELSE IF o.is_buy
                        THEN update_quantity_in_place(b, "bid_levels", node, new_quantity)
                        ELSE update_quantity_in_place(b, "ask_levels", node, new_quantity)
         IN  [book |-> [b1 EXCEPT !.total_amends = @ + 1], ret |-> TRUE]

\* mutant: both side maps iterate in ascending price order
RECURSIVE MapOrder_less(_, _)
MapOrder_less(keys, side) ==
    IF keys = {} THEN <<>>
    ELSE LET first == CHOOSE k \in keys : \A j \in keys : k <= j
         IN  <<first>> \o MapOrder_less(keys \ {first}, side)

\* iteration order of a side map: std::greater for bid_levels, std::less
\* for ask_levels
RECURSIVE MapOrder(_, _)
MapOrder(keys, side) ==
    IF keys = {} THEN <<>>
    ELSE LET first == IF side = "bid_levels"
                      THEN CHOOSE k \in keys : \A j \in keys : k >= j
                      ELSE CHOOSE k \in keys : \A j \in keys : k <= j
         IN  <<first>> \o MapOrder(keys \ {first}, side)

\* mutant: the loop stops one entry late (count++ > depth)
get_snapshot_one_more(b, depth) ==
    LET Top(side) ==
            LET it == MapOrder(DOMAIN b[side], side)
                n == IF depth + 1 < Len(it) THEN depth + 1 ELSE Len(it)
            IN  [i \in 1..n |-> [price |-> it[i],
                                 total_quantity |-> b[side][it[i]].total_quantity]]
    IN  [bids |-> Top("bid_levels"), asks |-> Top("ask_levels")]

get_snapshot(b, depth) ==
    LET Top(side) ==
            LET it == MapOrder(DOMAIN b[side], side)
                n == IF depth < Len(it) THEN depth ELSE Len(it)
            IN  [i \in 1..n |-> [price |-> it[i],
                                 total_quantity |-> b[side][it[i]].total_quantity]]
    IN  [bids |-> Top("bid_levels"), asks |-> Top("ask_levels")]

\* begin() of a side map is the first key of its iteration order
get_best_prices(b) ==
    [best_bid |-> IF DOMAIN b.bid_levels = {} THEN 0
                  ELSE MapOrder(DOMAIN b.bid_levels, "bid_levels")[1],
     best_ask |-> IF DOMAIN b.ask_levels = {} THEN DblMax
                  ELSE MapOrder(DOMAIN b.ask_levels, "ask_levels")[1]]

(* ------------------------------- actions ------------------------------- *)
Commit(b) ==
    /\ order_pool' = b.order_pool
    /\ bid_levels' = b.bid_levels
    /\ ask_levels' = b.ask_levels
    /\ order_lookup' = b.order_lookup
    /\ total_orders' = b.total_orders
    /\ total_cancels' = b.total_cancels
    /\ total_amends' = b.total_amends

\* call: the most recent call and the arguments it read (a cancel_order, and
\* an amend_order that does not find its identifier, read order_id alone);
\* ret: what that call returned
Call(op, id, is_buy, price, quantity) ==
    [op |-> op, order_id |-> id, is_buy |-> is_buy, price |-> price, quantity |-> quantity]

Init ==
    /\ order_pool = PoolInit
    /\ bid_levels = EmptyMap
    /\ ask_levels = EmptyMap
    /\ order_lookup = EmptyMap
    /\ total_orders = 0
    /\ total_cancels = 0
    /\ total_amends = 0
    /\ call = Call("init", 0, FALSE, 0, 0)
    /\ ret = "void"

AddOrderOf(id) ==
    \E is_buy \in BOOLEAN, p \in Prices, q \in Quantities :
        /\ total_orders < MaxOrders
        /\ Commit(add_order(this, [order_id |-> id, is_buy |-> is_buy,
                                   price |-> p, quantity |-> q]))
        /\ call' = Call("add_order", id, is_buy, p, q)
        /\ ret' = "void"

AddOrder == \E id \in OrderIds : AddOrderOf(id)

\* add_order as a caller that never reuses a resting identifier calls it
AddFreshOrder == \E id \in OrderIds \ DOMAIN order_lookup : AddOrderOf(id)

CancelOrder ==
    \E id \in OrderIds :
        LET r == cancel_order(this, id)
        IN  /\ Commit(r.book)
            /\ call' = Call("cancel_order", id, FALSE, 0, 0)
            /\ ret' = r.ret

AmendOrder ==
    \E id \in OrderIds, p \in AmendPrices, q \in AmendQuantities :
        LET r == amend_order(this, id, p, q)
        IN  /\ r.book.total_orders <= MaxOrders
            /\ r.book.total_amends <= MaxAmends
            /\ Commit(r.book)
            /\ call' = IF r.ret THEN Call("amend_order", id, FALSE, p, q)
                                ELSE Call("amend_order", id, FALSE, 0, 0)
            /\ ret' = r.ret

\* the two output vectors are what the call returns
GetSnapshot ==
    \E depth \in Depths :
        /\ UNCHANGED book_vars
        /\ call' = [op |-> "get_snapshot", depth |-> depth]
        /\ ret' = get_snapshot(this, depth)

\* add_order at the ends of the ranges of price and quantity
AddLimitOrder ==
    \E id \in OrderIds \ DOMAIN order_lookup, is_buy \in BOOLEAN,
       p \in LimitPrices, q \in LimitQuantities :
        /\ total_orders < MaxOrders
        /\ Commit(add_order(this, [order_id |-> id, is_buy |-> is_buy,
                                   price |-> p, quantity |-> q]))
        /\ call' = Call("add_order", id, is_buy, p, q)
        /\ ret' = "void"

GetBestPrices ==
    /\ UNCHANGED book_vars
    /\ call' = [op |-> "get_best_prices"]
    /\ ret' = get_best_prices(this)

Next == AddOrder \/ CancelOrder \/ AmendOrder

Spec == Init /\ [][Next]_vars

NextFresh == AddFreshOrder \/ CancelOrder \/ AmendOrder

SpecFresh == Init /\ [][NextFresh]_vars

\* the book and its snapshot reader, identifiers not reused while resting
NextRead == AddFreshOrder \/ CancelOrder \/ AmendOrder \/ GetSnapshot

SpecRead == Init /\ [][NextRead]_vars

\* the book and its best-price reader, over the whole range of the arguments
NextBest == AddLimitOrder \/ CancelOrder \/ AmendOrder \/ GetBestPrices

SpecBest == Init /\ [][NextBest]_vars

(* ----------------------------- properties ------------------------------ *)
Sides == {"bid_levels", "ask_levels"}

SideOf(is_buy) == IF is_buy THEN "bid_levels" ELSE "ask_levels"

\* the record a node pointer points to
Deref(node) == order_pool.data[node].order

\* every cell of every level queue, as <<side, price, position>>
Cells == {c \in Sides \X (Prices \cup AmendPrices) \X (1..MaxOrders + 1) :
            /\ c[2] \in DOMAIN this[c[1]]
            /\ c[3] <= Len(this[c[1]][c[2]].orders)}

NodeAt(c) == this[c[1]][c[2]].orders[c[3]]

\* uint64_t sum of the quantities of a sequence of records
RECURSIVE SumQuantity(_)
SumQuantity(orders) ==
    IF orders = <<>> THEN 0
    ELSE UAdd(Deref(orders[1]).quantity, SumQuantity(Tail(orders)))

\* C1: on either side, every level's total_quantity is the (uint64_t) sum of
\* the quantities of the records in its queue.
C1_AggregateIsQueueSum ==
    \A side \in Sides : \A p \in DOMAIN this[side] :
        /\ \A i \in 1..Len(this[side][p].orders) :
              this[side][p].orders[i] \in DOMAIN order_pool.data
        /\ this[side][p].total_quantity = SumQuantity(this[side][p].orders)

\* an in-place amend has lowered to 0 the quantity of one of the two
\* records of a level
C1_Witness ==
    /\ call.op = "amend_order" /\ ret = TRUE /\ call.quantity = 0
    /\ total_orders = 2 /\ total_cancels = 0
    /\ \E p \in DOMAIN bid_levels :
          /\ Len(bid_levels[p].orders) = 2
          /\ bid_levels[p].total_quantity = 1

\* C2: every level present in bid_levels or ask_levels has a non-empty queue.
C2_NoEmptyLevel ==
    \A side \in Sides : \A p \in DOMAIN this[side] : this[side][p].orders # <<>>

\* a price-changing amend has moved the sole occupant of a level (the book
\* has only ever held one record), and its old level is gone
C2_Witness ==
    /\ call.op = "amend_order" /\ ret = TRUE
    /\ total_orders = 2 /\ total_cancels = 1
    /\ order_pool.blocks = 1 /\ order_pool.current_index = 1
    /\ DOMAIN bid_levels = {} /\ DOMAIN ask_levels = {call.price}

\* C3: every identifier of order_lookup maps to a live record held by
\* exactly one queue cell, the cell being in the level keyed by the record's
\* price on the side of the record's is_buy.
C3_IndexedRecordInOneLevel ==
    \A id \in DOMAIN order_lookup :
        LET node == order_lookup[id]
        IN  /\ node \in DOMAIN order_pool.data
            /\ \E c \in Cells :
                  /\ NodeAt(c) = node
                  /\ c[1] = SideOf(Deref(node).is_buy)
                  /\ c[2] = Deref(node).price
                  /\ \A d \in Cells : NodeAt(d) = node => d = c

\* two identifiers rest in one level after a third record left the book
C3_Witness ==
    /\ DOMAIN order_lookup = OrderIds
    /\ total_cancels = 1
    /\ \E p \in DOMAIN ask_levels : Len(ask_levels[p].orders) = 2

\* C4 (as claimed): every queued record is the record order_lookup maps its
\* identifier to.
C4_QueuedRecordIsIndexed ==
    \A c \in Cells :
        /\ NodeAt(c) \in DOMAIN order_pool.data
        /\ Deref(NodeAt(c)).order_id \in DOMAIN order_lookup
        /\ order_lookup[Deref(NodeAt(c)).order_id] = NodeAt(c)

\* uint64_t sum of total_quantity over a snapshot list
RECURSIVE SumLevels(_)
SumLevels(levels) ==
    IF levels = <<>> THEN 0
    ELSE UAdd(levels[1].total_quantity, SumLevels(Tail(levels)))

\* uint64_t sum of the quantities of the indexed orders of one side
RECURSIVE SumIndexed(_, _)
SumIndexed(ids, is_buy) ==
    IF ids = {} THEN 0
    ELSE LET id == CHOOSE x \in ids : TRUE
             o == Deref(order_lookup[id])
         IN  UAdd(IF o.is_buy = is_buy THEN o.quantity ELSE 0,
                  SumIndexed(ids \ {id}, is_buy))

\* C5: with add_order called on non-resting identifiers only, the aggregates
\* of a full-depth snapshot of a side sum to the quantities of the indexed
\* orders of that side.
C5_SideTotalIsIndexedSum ==
    LET snap == get_snapshot(this, Cardinality(DOMAIN bid_levels) + Cardinality(DOMAIN ask_levels))
    IN  /\ Len(snap.bids) = Cardinality(DOMAIN bid_levels)
        /\ Len(snap.asks) = Cardinality(DOMAIN ask_levels)
        /\ SumLevels(snap.bids) = SumIndexed(DOMAIN order_lookup, TRUE)
        /\ SumLevels(snap.asks) = SumIndexed(DOMAIN order_lookup, FALSE)

\* two bids rest at two price levels after a price-changing amend
C5_Witness ==
    /\ call.op = "amend_order" /\ ret = TRUE /\ total_cancels = 1
    /\ Cardinality(DOMAIN bid_levels) = 2
    /\ call.quantity = 2
    /\ DOMAIN order_lookup = OrderIds
    /\ SumLevels(get_snapshot(this, 2).bids) = UAdd(1, 2)

(* ------------------------ properties of one call ----------------------- *)
\* the book after the step
thisNext == [order_pool |-> order_pool', bid_levels |-> bid_levels',
             ask_levels |-> ask_levels', order_lookup |-> order_lookup',
             total_orders |-> total_orders', total_cancels |-> total_cancels',
             total_amends |-> total_amends']

AllPrices == Prices \cup AmendPrices

\* the queue of a level, empty when the level is absent
Queue(b, side, p) == IF p \in DOMAIN b[side] THEN b[side][p].orders ELSE <<>>

Range(seq) == {seq[i] : i \in 1..Len(seq)}

Without(orders, node) == SelectSeq(orders, LAMBDA x : x # node)

\* every record but that of node is what it was
OtherRecordsKept(node) ==
    \A n \in DOMAIN order_pool.data \ {node} :
        n \in DOMAIN order_pool'.data /\ order_pool'.data[n] = order_pool.data[n]

\* C6: cancel_order and amend_order on an identifier that is not in
\* order_lookup return false and leave the side maps, the index, the pool
\* and the counters as they were; so does a cancel_order that follows a
\* successful cancel_order of the same identifier.
C6_UnknownIdIsNoOp ==
    [][/\ (/\ call'.op \in {"cancel_order", "amend_order"}
           /\ call'.order_id \notin DOMAIN order_lookup)
          => (ret' = FALSE /\ UNCHANGED book_vars)
       /\ (/\ call.op = "cancel_order" /\ ret = TRUE
           /\ call'.op = "cancel_order" /\ call'.order_id = call.order_id)
          => (ret' = FALSE /\ UNCHANGED book_vars)]_vars

\* cancel_order has returned false for an identifier while the other one
\* rests, after an earlier cancel
C6_Witness ==
    /\ call.op = "cancel_order" /\ ret = FALSE
    /\ total_cancels = 1
    /\ DOMAIN order_lookup = OrderIds \ {call.order_id}

\* C7: cancel_order on a resting identifier returns true, takes exactly that
\* record out of its queue (dropping the level if the queue empties),
\* subtracts its quantity from that level's aggregate, erases the identifier
\* and pushes the slot on the free list; every other queue, aggregate,
\* record and index entry is as before.
C7_CancelRemovesOnlyThatOrder ==
    [][(call'.op = "cancel_order" /\ call'.order_id \in DOMAIN order_lookup) =>
        LET id == call'.order_id
            node == order_lookup[id]
            o == Deref(node)
        IN  /\ ret' = TRUE
            /\ Cardinality({c \in Cells : NodeAt(c) = node}) = 1
            /\ node \in Range(Queue(this, SideOf(o.is_buy), o.price))
            /\ DOMAIN order_lookup' = DOMAIN order_lookup \ {id}
            /\ \A j \in DOMAIN order_lookup' : order_lookup'[j] = order_lookup[j]
            /\ order_pool'.free_list = Append(order_pool.free_list, node)
            /\ OtherRecordsKept(node)
            /\ total_cancels' = total_cancels + 1
            /\ \A side \in Sides : \A p \in AllPrices :
                  LET rest == Without(Queue(this, side, p), node)
                  IN  /\ Queue(thisNext, side, p) = rest
                      /\ (p \in DOMAIN thisNext[side]) <=> (rest # <<>>)
                      /\ p \in DOMAIN thisNext[side] =>
                            thisNext[side][p].total_quantity =
                              USub(this[side][p].total_quantity,
                                   IF side = SideOf(o.is_buy) /\ p = o.price
                                   THEN o.quantity ELSE 0)]_vars

\* a cancel has left two records in one queue
C7_Witness ==
    /\ call.op = "cancel_order" /\ ret = TRUE
    /\ total_orders = 3 /\ total_cancels = 1
    /\ \E side \in Sides : \E p \in DOMAIN this[side] :
          Len(this[side][p].orders) = 2 /\ this[side][p].total_quantity = 2

\* C8: amend_order on a resting order whose price is within the tolerance of
\* new_price returns true and leaves every queue, and the index, as they
\* were; the order's quantity becomes new_quantity, its level's aggregate
\* changes by new_quantity minus the old quantity, and nothing else changes.
C8_QuantityAmendKeepsPosition ==
    [][(/\ call'.op = "amend_order"
        /\ call'.order_id \in DOMAIN order_lookup
        /\ Abs(Deref(order_lookup[call'.order_id]).price - call'.price) <= PriceTol) =>
        LET node == order_lookup[call'.order_id]
            o == Deref(node)
        IN  /\ ret' = TRUE
            /\ order_lookup' = order_lookup
            /\ OtherRecordsKept(node)
            /\ order_pool'.data[node].order = [o EXCEPT !.quantity = call'.quantity]
            /\ \A side \in Sides :
                  /\ DOMAIN thisNext[side] = DOMAIN this[side]
                  /\ \A p \in DOMAIN this[side] :
                        /\ thisNext[side][p].orders = this[side][p].orders
                        /\ thisNext[side][p].total_quantity =
                              IF side = SideOf(o.is_buy) /\ p = o.price
                              THEN UAdd(USub(this[side][p].total_quantity, o.quantity),
                                        call'.quantity)
                              ELSE this[side][p].total_quantity]_vars

\* the record at the front of a queue of two has had its quantity raised
\* from 1 to 2 by an amend to a price within the tolerance of its own
C8_Witness ==
    /\ call.op = "amend_order" /\ ret = TRUE /\ call.quantity = 2
    /\ call.order_id \in DOMAIN order_lookup
    /\ Deref(order_lookup[call.order_id]).price # call.price
    /\ total_orders = 2 /\ total_cancels = 0
    /\ \E p \in DOMAIN ask_levels :
          /\ Len(ask_levels[p].orders) = 2
          /\ ask_levels[p].orders[1] = order_lookup[call.order_id]
          /\ ask_levels[p].total_quantity = UAdd(2, 1)

\* C9: amend_order on a resting order whose price differs from new_price by
\* more than the tolerance returns true; afterwards the identifier rests on
\* the same side with new_price and new_quantity, at the back of the queue
\* of the level at new_price, behind the records that were there; it is gone
\* from its old level, which is dropped if it was alone there.
C9_PriceAmendGoesToBack ==
    [][(/\ call'.op = "amend_order"
        /\ call'.order_id \in DOMAIN order_lookup
        /\ Abs(Deref(order_lookup[call'.order_id]).price - call'.price) > PriceTol) =>
        LET id == call'.order_id
            node == order_lookup[id]
            o == Deref(node)
            side == SideOf(o.is_buy)
            other == IF o.is_buy THEN "ask_levels" ELSE "bid_levels"
            rest == Without(Queue(this, side, o.price), node)
        IN  /\ ret' = TRUE
            /\ DOMAIN order_lookup' = DOMAIN order_lookup
            /\ order_pool'.data[order_lookup'[id]].order =
                  [o EXCEPT !.price = call'.price, !.quantity = call'.quantity]
            /\ Queue(thisNext, side, call'.price) =
                  Append(Queue(this, side, call'.price), order_lookup'[id])
            /\ Queue(thisNext, side, o.price) = rest
            /\ (o.price \in DOMAIN thisNext[side]) <=> (rest # <<>>)
            /\ \A p \in AllPrices \ {o.price, call'.price} :
                  Queue(thisNext, side, p) = Queue(this, side, p)
            /\ thisNext[other] = this[other]]_vars

\* a price-changing amend has put an order behind one that already rested at
\* the new price, and the level it came from is gone
C9_Witness ==
    /\ call.op = "amend_order" /\ ret = TRUE
    /\ total_orders = 3 /\ total_cancels = 1
    /\ DOMAIN order_lookup = OrderIds
    /\ DOMAIN ask_levels = {}
    /\ DOMAIN bid_levels = {call.price}
    /\ Len(bid_levels[call.price].orders) = 2
    /\ bid_levels[call.price].orders[2] = order_lookup[call.order_id]

\* C10: in every level, a step keeps the records that stay in the queue in
\* the order they had and puts a record it inserts (by add_order or by a
\* price-changing amend_order) behind them all; so a queue is ordered by
\* most recent insertion, and cancels and quantity-only amends reorder
\* nothing.
C10_QueueIsArrivalOrder ==
    [][\A side \in Sides : \A p \in AllPrices :
        LET old == Queue(this, side, p)
            new == Queue(thisNext, side, p)
            kept == SelectSeq(old, LAMBDA x : x \in Range(new))
        IN  \/ new = kept
            \/ /\ call'.op \in {"add_order", "amend_order"}
               /\ call'.order_id \in DOMAIN order_lookup'
               /\ order_lookup'[call'.order_id] \notin Range(old)
               /\ new = Append(old, order_lookup'[call'.order_id])]_vars

\* a third record has joined a queue behind the two that were there
C10_Witness ==
    /\ call.op = "add_order"
    /\ total_orders = 3 /\ total_cancels = 0
    /\ Len(Queue(this, SideOf(call.is_buy), call.price)) = 3
    /\ Queue(this, SideOf(call.is_buy), call.price)[3] = order_lookup[call.order_id]

\* the price levels of both sides with their aggregates
LevelsOf(b) ==
    [side \in Sides |-> [p \in DOMAIN b[side] |-> b[side][p].total_quantity]]

\* C11: when add_order has just added an order under an identifier that was
\* not resting, cancel_order of that identifier returns true and brings back
\* the price levels and aggregates of both sides that were there before the
\* add, whether the add created its level or joined one.
C11_AddThenCancelRestoresLevels ==
    [][(call'.op = "add_order" /\ call'.order_id \notin DOMAIN order_lookup) =>
        LET r == cancel_order(thisNext, call'.order_id)
        IN  /\ r.ret = TRUE
            /\ LevelsOf(r.book) = LevelsOf(this)]_vars

\* the second of two orders added under different identifiers has been
\* cancelled (its slot, the second of the pool, is the one on the free list)
\* with no amend in between, and the one level of the first order is left
C11_Witness ==
    /\ call.op = "cancel_order" /\ ret = TRUE
    /\ total_orders = 2 /\ total_cancels = 1 /\ total_amends = 0
    /\ order_pool.free_list = <<(<<1, 1>>)>>
    /\ DOMAIN order_lookup = OrderIds \ {call.order_id}
    /\ Cardinality(DOMAIN bid_levels) + Cardinality(DOMAIN ask_levels) = 1

\* C12: get_snapshot(depth) changes nothing in the book and returns, for
\* each side, min(depth, number of levels) entries, each a level of that side
\* with its aggregate, in strictly descending price order for bids and
\* ascending for asks, every level left out being worse than every level
\* listed.
C12_SnapshotIsTopOfBook ==
    [][call'.op = "get_snapshot" =>
        /\ UNCHANGED book_vars
        /\ \A side \in Sides :
              LET out == IF side = "bid_levels" THEN ret'.bids ELSE ret'.asks
                  n == Cardinality(DOMAIN this[side])
                  Better(p, q) == IF side = "bid_levels" THEN p > q ELSE p < q
              IN  /\ Len(out) = IF call'.depth < n THEN call'.depth ELSE n
                  /\ \A i \in 1..Len(out) :
                        /\ out[i].price \in DOMAIN this[side]
                        /\ out[i].total_quantity = this[side][out[i].price].total_quantity
                        /\ \A j \in 1..Len(out) : i < j => Better(out[i].price, out[j].price)
                        /\ \A p \in DOMAIN this[side] :
                              p \notin {out[k].price : k \in 1..Len(out)}
                                => Better(out[i].price, p)]_vars

\* a snapshot of depth 1 has returned the higher of two bid levels alone
C12_Witness ==
    /\ call.op = "get_snapshot" /\ call.depth = 1
    /\ DOMAIN bid_levels = {1, 3}
    /\ ret.bids = <<[price |-> 3, total_quantity |-> bid_levels[3].total_quantity]>>
    /\ ret.asks = <<>>


\* C13: bid_levels iterates in strictly descending and ask_levels in strictly
\* ascending price order, each level is visited once and carries the price it
\* is keyed by (so no two levels of a side share a price); and an add_order
\* at a price that has a level on its side creates no level: it leaves the
\* side's set of levels as it was and lengthens that level's queue by one.
C13_SidesStrictlyOrdered ==
    /\ [](\A side \in Sides :
            LET it == MapOrder(DOMAIN this[side], side)
            IN  /\ Len(it) = Cardinality(DOMAIN this[side])
                /\ \A i \in 1..Len(it) : this[side][it[i]].price = it[i]
                /\ \A i, j \in 1..Len(it) :
                      i < j => IF side = "bid_levels" THEN it[i] > it[j]
                                                      ELSE it[i] < it[j])
    /\ [][(/\ call'.op = "add_order"
           /\ call'.price \in DOMAIN this[SideOf(call'.is_buy)]) =>
             LET side == SideOf(call'.is_buy)
             IN  /\ DOMAIN thisNext[side] = DOMAIN this[side]
                 /\ Len(thisNext[side][call'.price].orders)
                      = Len(this[side][call'.price].orders) + 1]_vars

\* an order has joined the lower of two bid levels
C13_Witness ==
    /\ call.op = "add_order" /\ call.is_buy /\ call.price = 1
    /\ MapOrder(DOMAIN bid_levels, "bid_levels") = <<3, 1>>
    /\ Len(bid_levels[1].orders) = 2

\* what get_best_prices returns for a book with no level on either side
NoPrice == get_best_prices([this EXCEPT !.bid_levels = EmptyMap,
                                        !.ask_levels = EmptyMap])

\* C14 (as claimed): get_best_prices returns the highest bid price and the
\* lowest ask price, and for a side that holds an order never the value it
\* returns for that side when the side is empty.
C14_EmptySideIsNoPrice ==
    call.op = "get_best_prices" =>
        /\ DOMAIN bid_levels # {} =>
              /\ ret.best_bid \in DOMAIN bid_levels
              /\ \A p \in DOMAIN bid_levels : p <= ret.best_bid
              /\ ret.best_bid # NoPrice.best_bid
        /\ DOMAIN ask_levels # {} =>
              /\ ret.best_ask \in DOMAIN ask_levels
              /\ \A p \in DOMAIN ask_levels : p >= ret.best_ask
              /\ ret.best_ask # NoPrice.best_ask

\* C15: an amend_order that returns true adds exactly one to total_amends,
\* whichever path it takes; an add_order adds exactly one to total_orders; a
\* cancel_order that returns true adds exactly one to total_cancels.
C15_CountersStepByOne ==
    [][/\ (call'.op = "amend_order" /\ ret' = TRUE) => total_amends' = total_amends + 1
       /\ call'.op = "add_order" => total_orders' = total_orders + 1
       /\ (call'.op = "cancel_order" /\ ret' = TRUE) => total_cancels' = total_cancels + 1]_vars

\* the second of two resting orders has been amended to another price
C15_Witness ==
    /\ call.op = "amend_order" /\ ret = TRUE
    /\ Abs(call.price - 1) > PriceTol
    /\ total_amends = 1 /\ total_orders = 3 /\ total_cancels = 1
    /\ DOMAIN order_lookup = OrderIds

\* C16: an identifier is absent from or present in order_lookup; it becomes
\* present only by an add_order of that identifier and absent only by a
\* cancel_order of that identifier that returns true. An amend_order leaves
\* the set of identifiers of order_lookup as it was, and one that returns
\* true leaves its identifier resting, at the new price if it changed the
\* price.
C16_IdentifierStateMachine ==
    [][/\ \A id \in OrderIds :
             /\ (id \notin DOMAIN order_lookup /\ id \in DOMAIN order_lookup')
                  => (call'.op = "add_order" /\ call'.order_id = id)
             /\ (id \in DOMAIN order_lookup /\ id \notin DOMAIN order_lookup')
                  => (call'.op = "cancel_order" /\ call'.order_id = id /\ ret' = TRUE)
       /\ call'.op = "amend_order" =>
             /\ DOMAIN order_lookup' = DOMAIN order_lookup
             /\ ret' = TRUE =>
                   /\ call'.order_id \in DOMAIN order_lookup'
                   /\ LET was == Deref(order_lookup[call'.order_id])
                          now == order_pool'.data[order_lookup'[call'.order_id]].order
                      IN  /\ now.is_buy = was.is_buy
                          /\ now.price = IF Abs(was.price - call'.price) > PriceTol
                                         THEN call'.price ELSE was.price
                          /\ \E c \in Sides \X {now.price} :
                                /\ now.price \in DOMAIN thisNext[c[1]]
                                /\ c[1] = SideOf(now.is_buy)
                                /\ \E i \in 1..Len(thisNext[c[1]][now.price].orders) :
                                      thisNext[c[1]][now.price].orders[i]
                                        = order_lookup'[call'.order_id]]_vars

\* one of two resting identifiers has been amended to another price and
\* both are resting
C16_Witness ==
    /\ call.op = "amend_order" /\ ret = TRUE
    /\ total_orders = 3 /\ total_cancels = 1 /\ total_amends = 1
    /\ DOMAIN order_lookup = OrderIds
    /\ Deref(order_lookup[call.order_id]).price = call.price
    /\ \E id \in OrderIds : Deref(order_lookup[id]).price # call.price

\* from book b to book b2 one record has been queued behind the level of
\* price on the side of is_buy, and nothing else of the two side maps and of
\* the records b holds has changed
AddsToOwnLevelOnly(b, b2, is_buy, price) ==
    LET side == SideOf(is_buy)
        opposite == SideOf(~is_buy)
    IN  /\ b2[opposite] = b[opposite]
        /\ DOMAIN b2[side] = DOMAIN b[side] \cup {price}
        /\ \A p \in DOMAIN b[side] \ {price} : b2[side][p] = b[side][p]
        /\ Len(Queue(b2, side, price)) = Len(Queue(b, side, price)) + 1
        /\ SubSeq(Queue(b2, side, price), 1, Len(Queue(b, side, price)))
              = Queue(b, side, price)
        /\ \A n \in DOMAIN b.order_pool.data :
              /\ n \in DOMAIN b2.order_pool.data
              /\ b2.order_pool.data[n] = b.order_pool.data[n]

\* C17: no matching. An add_order changes only the level of the order's
\* price on the order's side, by queueing the order there: the opposite side
\* map, every other level and every record already held stay as they were,
\* whether or not the price crosses the opposite best price. The same holds
\* of the add half of a price-changing amend_order, from the book its cancel
\* half leaves.
C17_AddDoesNotMatch ==
    [][/\ call'.op = "add_order" =>
             AddsToOwnLevelOnly(this, thisNext, call'.is_buy, call'.price)
       /\ (/\ call'.op = "amend_order" /\ ret' = TRUE
           /\ Abs(Deref(order_lookup[call'.order_id]).price - call'.price) > PriceTol) =>
             AddsToOwnLevelOnly(cancel_order(this, call'.order_id).book, thisNext,
                                Deref(order_lookup[call'.order_id]).is_buy,
                                call'.price)]_vars

\* a buy order has been added above the best ask: the book is crossed
C17_Witness ==
    /\ call.op = "add_order" /\ call.is_buy
    /\ call.price \in DOMAIN bid_levels
    /\ DOMAIN ask_levels # {}
    /\ call.price > get_best_prices(this).best_ask

\* C18 (as claimed): no queued record has quantity 0, and an add_order with
\* quantity 0 or an amend_order with new_quantity 0 leaves the side maps, the
\* index, the pool and the counters as they were.
C18_ZeroQuantityRejected ==
    /\ [](\A c \in Sides \X (AllPrices \cup LimitPrices) \X (1..MaxOrders + 1) :
            (c[2] \in DOMAIN this[c[1]] /\ c[3] <= Len(this[c[1]][c[2]].orders))
              => Deref(this[c[1]][c[2]].orders[c[3]]).quantity # 0)
    /\ [][(call'.op \in {"add_order", "amend_order"} /\ call'.quantity = 0)
            => UNCHANGED book_vars]_vars

\* C19: total_orders - total_cancels is the number of records queued in the
\* levels of the two sides. An amend_order that changes the price adds one
\* to total_orders and one to total_cancels besides total_amends; one that
\* keeps the price changes neither.
C19_CountersCountQueuedRecords ==
    /\ [](total_orders - total_cancels = Cardinality(Cells))
    /\ [][(call'.op = "amend_order" /\ ret' = TRUE) =>
            IF Abs(Deref(order_lookup[call'.order_id]).price - call'.price) > PriceTol
            THEN /\ total_orders' = total_orders + 1
                 /\ total_cancels' = total_cancels + 1
                 /\ total_amends' = total_amends + 1
            ELSE /\ total_orders' = total_orders
                 /\ total_cancels' = total_cancels]_vars

\* an identifier added twice has been amended to another price: two records
\* are queued, one of them under no identifier
C19_Witness ==
    /\ call.op = "amend_order" /\ ret = TRUE
    /\ total_orders = 3 /\ total_cancels = 1
    /\ Cardinality(DOMAIN order_lookup) = 1
    /\ Cardinality(Cells) = 2

\* slot s comes before slot t in the order the pool first hands slots out
SlotBefore(s, t) == s[1] < t[1] \/ (s[1] = t[1] /\ s[2] < t[2])

\* C20: the slots of the queued records are pairwise distinct and hold live
\* records, none of them is on free_list, and free_list holds no slot twice.
\* An add_order takes the last slot of free_list when there is one, and
\* otherwise a slot that comes after every slot handed out so far; a
\* cancel_order that returns true puts the slot of its record, which was not
\* on free_list, at the end of free_list.
C20_SlotsAreExclusive ==
    /\ [](LET queued == {NodeAt(c) : c \in Cells}
              free == order_pool.free_list
          IN  /\ Cardinality(queued) = Cardinality(Cells)
              /\ queued \subseteq DOMAIN order_pool.data
              /\ queued \cap Range(free) = {}
              /\ Cardinality(Range(free)) = Len(free))
    /\ [][/\ call'.op = "add_order" =>
                LET ptr == order_lookup'[call'.order_id]
                    free == order_pool.free_list
                IN  IF free # <<>>
                    THEN /\ ptr = free[Len(free)]
                         /\ order_pool'.free_list = SubSeq(free, 1, Len(free) - 1)
                    ELSE /\ order_pool'.free_list = <<>>
                         /\ \A s \in DOMAIN order_pool.data : SlotBefore(s, ptr)
          /\ (call'.op = "cancel_order" /\ ret' = TRUE) =>
                LET ptr == order_lookup[call'.order_id]
                IN  /\ ptr \notin Range(order_pool.free_list)
                    /\ order_pool'.free_list = Append(order_pool.free_list, ptr)
                    /\ ptr \notin DOMAIN order_pool'.data]_vars

\* after two cancels an add_order has taken the slot freed last and left
\* the one freed first on free_list
C20_Witness ==
    /\ call.op = "add_order"
    /\ total_orders = 3 /\ total_cancels = 2
    /\ order_pool.free_list = <<(<<1, 0>>)>>
    /\ order_lookup[call.order_id] = <<1, 1>>
=============================================================================
